---- MODULE Spec2Model ----
(***************************************************************************)
(* Conversation-history sessions of openai-agents-js-sessions.             *)
(*                                                                         *)
(* One caller drives the Session contract (getItems, addItems, popItem,    *)
(* clearSession) against sessions of one adapter class: InMemorySession,   *)
(* SQLiteSession, SequelizeSession, or one of the three DrizzleSession     *)
(* dialects, with two session keys sharing the database.  The database     *)
(* engine is the environment: it assigns row ids and created_at timestamps *)
(* from its clock, and it may refuse a statement.                          *)
(*                                                                         *)
(* Spec: two keys on a healthy engine.  SpecFault: one key on an engine    *)
(* that may refuse any statement.  SpecOpen: DrizzleSession.fromUrl and    *)
(* close.  SpecOwn: a SequelizeSession built by fromUrl or fromSequelize,  *)
(* or a SQLiteSession, used and closed.  SpecPop: two popItem calls        *)
(* interleaving on PostgreSQL.  SpecRace: the same on MySQL and Sequelize. *)
(* SpecAdd: two addItems calls interleaving.  SpecCorrupt: a database with *)
(* payloads that do not parse.                                             *)
(* SpecOrphan: addItems calls interleaving with clearSession.  SpecSettle: *)
(* fromUrl with its steps running to their end.  SpecGC: fromUrl, close    *)
(* and the finalizers of dropped session objects.  SpecAlias: a caller     *)
(* changing an array InMemorySession.getItems returned.  SpecWindow:       *)
(* SequelizeSession.getItems(k) racing with other callers.                 *)
(***************************************************************************)
EXTENDS Integers, Sequences, FiniteSets, TLC

(***************************************************************************)
(* Bounds of the model.                                                    *)
(***************************************************************************)
\* rows the item table may hold at once (all session keys together)
MaxRows == 3
\* largest id the auto-increment counter hands out
MaxId == 3
\* the engine clock reads 0..MaxClock (seconds)
MaxClock == 1
\* longest batch passed to addItems
MaxBatch == 2

\* session keys sharing one database
Keys == {"A", "B"}
\* conversation items (opaque JSON-serializable values)
Items == {"u1", "a1"}

\* the adapter class the caller constructed
Kinds == {"memory", "sqlite", "sequelize", "drizzle_sqlite", "drizzle_pg",
          "drizzle_mysql"}
DrizzleKinds == {"drizzle_sqlite", "drizzle_pg", "drizzle_mysql"}

\* JavaScript's undefined (an omitted limit, popItem on an empty session);
\* a present value v is <<v>>
Undefined == <<>>
Some(v) == <<v>>

\* limits a caller passes to getItems: omitted, negative, zero, below, equal
\* to and (with fewer than MaxRows items stored) above the number of items
Limits == {Undefined} \cup {Some(k) : k \in -1 .. MaxRows}

\* batches a caller passes to addItems
Batches == UNION {[1 .. n -> Items] : n \in 0 .. MaxBatch}

Min(a, b) == IF a < b THEN a ELSE b
Max(a, b) == IF a > b THEN a ELSE b

(***************************************************************************)
(* Results of a call: a resolved value, or a rejection carrying the        *)
(* wrapper's prefix ("" when the adapter does not wrap) and the message of *)
(* the failed statement.                                                   *)
(***************************************************************************)
Ok(v) == [ok |-> TRUE, val |-> v, prefix |-> "", msg |-> ""]
Err(prefix, msg) == [ok |-> FALSE, val |-> <<>>, prefix |-> prefix, msg |-> msg]

\* the message of a statement the engine refused
EngineError == "engine error"

(***************************************************************************)
(* JSON.stringify / JSON.parse on items.  A stored payload is the text of  *)
(* the item; text that is not the serialization of an item does not parse. *)
(***************************************************************************)
\* String(item): text that is not the item's JSON
StringOf(item) == <<"text", item>>

JSONstringify(item) == <<"json", item>>
CanParse(text) == Len(text) = 2 /\ text[1] = "json"
JSONparse(text) == text[2]

(***************************************************************************)
(* The engine's query primitives on a table: a set of rows                 *)
(* [id, sessionId, data, createdAt] with unique ids.                       *)
(***************************************************************************)
\* a scan without the session filter
WhereAny(rows, sid) == rows

\* WHERE session_id = sid
Where(rows, sid) == {r \in rows : r.sessionId = sid}

\* ORDER BY id ASC
RECURSIVE OrderById(_)
OrderById(rows) ==
    IF rows = {} THEN <<>>
    ELSE LET first == CHOOSE r \in rows : \A q \in rows : r.id <= q.id
         IN <<first>> \o OrderById(rows \ {first})

\* (created_at, id) of r sorts before or with that of q
TimeIdLeq(r, q) ==
    \/ r.createdAt < q.createdAt
    \/ r.createdAt = q.createdAt /\ r.id <= q.id

\* ORDER BY created_at ASC, id ASC
RECURSIVE OrderByTimeId(_)
OrderByTimeId(rows) ==
    IF rows = {} THEN <<>>
    ELSE LET first == CHOOSE r \in rows : \A q \in rows : TimeIdLeq(r, q)
         IN <<first>> \o OrderByTimeId(rows \ {first})

Reverse(seq) == [i \in 1 .. Len(seq) |-> seq[Len(seq) + 1 - i]]

\* LIMIT n of a positive or zero n
Limit(seq, n) == SubSeq(seq, 1, Min(n, Len(seq)))

\* SQLite's LIMIT: a negative n means no upper bound
SqliteLimit(seq, n) == IF n < 0 THEN seq ELSE Limit(seq, n)

\* OFFSET n
Offset(seq, n) == SubSeq(seq, n + 1, Len(seq))

ToSet(seq) == {seq[i] : i \in 1 .. Len(seq)}

\* an INSERT that hands the ids out from the last value of the batch to the
\* first
InsertRowsReversed(rows, nextId, sid, batch, clock) ==
    rows \cup {[id |-> nextId + Len(batch) - i, sessionId |-> sid,
                data |-> JSONstringify(batch[i]), createdAt |-> clock] :
               i \in 1 .. Len(batch)}

\* INSERT of a batch in one statement: consecutive ids from the counter, one
\* created_at for the whole statement
InsertRows(rows, nextId, sid, batch, clock) ==
    rows \cup {[id |-> nextId + i - 1, sessionId |-> sid,
                data |-> JSONstringify(batch[i]), createdAt |-> clock] :
               i \in 1 .. Len(batch)}

(***************************************************************************)
(* InMemorySession: an array per instance.                                 *)
(***************************************************************************)
\* a getItems that hands out this.items itself when no limit is given
ReturnsItemsItself(limit) == limit = Undefined

\* whether the array getItems returns is the session's own array object:
\* [...this.items] and this.items.slice(startIndex) both build a new array
ReturnsOwnArray(limit) == FALSE

InMemorySession_getItems(arr, limit) ==
    IF limit = Undefined THEN arr
    ELSE LET startIndex == Max(0, Len(arr) - limit[1])
         IN SubSeq(arr, startIndex + 1, Len(arr))

InMemorySession_addItems(arr, batch) == arr \o batch

\* Array.pop: the array left and the element returned
InMemorySession_popItem(arr) ==
    IF arr = <<>> THEN [arr |-> arr, ret |-> Undefined]
    ELSE [arr |-> SubSeq(arr, 1, Len(arr) - 1), ret |-> Some(arr[Len(arr)])]

InMemorySession_clearSession(arr) == <<>>

(***************************************************************************)
(* The durable adapters work on a database db = [messages, sessions,       *)
(* nextId]: the item table, the agent_sessions table (DrizzleSession only; *)
(* SQLiteSession and SequelizeSession keep no session rows) and the        *)
(* auto-increment counter.  Every operation takes the fault f, the         *)
(* statement of this call that the engine refuses (NoFault: none), and     *)
(* yields the database it leaves, the call's result and the number of      *)
(* statements it issued.                                                   *)
(***************************************************************************)
NoFault == <<"none", 0>>
Fault(stmt) == <<stmt, 1>>

Out(db, res, io) == [db |-> db, res |-> res, io |-> io]

\* the message JSON.parse throws
ParseError == "parse error"

\* rows.map(row => JSON.parse(row.data)) without a try: one bad payload throws
ParseAll(rowSeq) ==
    IF \A i \in 1 .. Len(rowSeq) : CanParse(rowSeq[i].data)
    THEN Ok([i \in 1 .. Len(rowSeq) |-> JSONparse(rowSeq[i].data)])
    ELSE Err("", ParseError)

\* JavaScript truthiness of an optional number: undefined and 0 are falsy
Truthy(limit) == limit # Undefined /\ limit[1] # 0

(***************************************************************************)
(* SQLiteSession (better-sqlite3, synchronous).                            *)
(***************************************************************************)
SQLiteSession_getItems(db, sid, limit, f) ==
    IF f = Fault("select") THEN Out(db, Err("", EngineError), 1)
    ELSE LET mine == Where(db.messages, sid)
             rowSeq == IF Truthy(limit)
                       THEN OrderById(ToSet(
                                SqliteLimit(Reverse(OrderById(mine)), limit[1])))
                       ELSE OrderById(mine)
         IN Out(db, ParseAll(rowSeq), 1)

\* the same inserts run one by one without the transaction wrapper: the
\* inserts before the failing one stay
InsertEachCommitted(db, sid, batch, clock, f) ==
    IF Len(batch) = 0 THEN Out(db, Ok(<<>>), 0)
    ELSE IF f[1] = "insert" /\ f[2] \in 1 .. Len(batch)
    THEN LET done == SubSeq(batch, 1, f[2] - 1)
         IN Out([db EXCEPT !.messages = InsertRows(@, db.nextId, sid, done, clock),
                           !.nextId = @ + Len(done)],
                Err("", EngineError), f[2])
    ELSE Out([db EXCEPT !.messages = InsertRows(@, db.nextId, sid, batch, clock),
                        !.nextId = @ + Len(batch)],
             Ok(<<>>), Len(batch))

\* the transaction of inserts; f = <<"insert", j>> fails the j-th insert and
\* the transaction wrapper rolls the earlier ones back
SQLiteSession_addItems(db, sid, batch, clock, f) ==
    IF Len(batch) = 0 THEN Out(db, Ok(<<>>), 0)
    ELSE IF f[1] = "insert" /\ f[2] \in 1 .. Len(batch)
    THEN LET done == SubSeq(batch, 1, f[2] - 1)
             partial == [db EXCEPT
                            !.messages = InsertRows(@, db.nextId, sid, done, clock),
                            !.nextId = @ + Len(done)]
             rolledBack == [partial EXCEPT !.messages = db.messages,
                                           !.nextId = db.nextId]
         IN Out(rolledBack, Err("", EngineError), f[2])
    ELSE Out([db EXCEPT !.messages = InsertRows(@, db.nextId, sid, batch, clock),
                        !.nextId = @ + Len(batch)],
             Ok(<<>>), Len(batch))

SQLiteSession_popItem(db, sid, f) ==
    IF f = Fault("select") THEN Out(db, Err("", EngineError), 1)
    ELSE LET found == Limit(Reverse(OrderById(Where(db.messages, sid))), 1)
         IN IF found = <<>> THEN Out(db, Ok(Undefined), 1)
            ELSE IF f = Fault("delete") THEN Out(db, Err("", EngineError), 2)
            ELSE LET row == found[1]
                     left == [db EXCEPT
                                 !.messages = {r \in @ : r.id # row.id}]
                 IN IF CanParse(row.data)
                    THEN Out(left, Ok(Some(JSONparse(row.data))), 2)
                    ELSE Out(left, Err("", ParseError), 2)

\* a DELETE that reports "no rows" as a failure
StrictClearSession(db, sid, f) ==
    IF f = Fault("delete") \/ {r \in db.messages : r.sessionId = sid} = {}
    THEN Out(db, Err("", EngineError), 1)
    ELSE Out([db EXCEPT !.messages = {r \in @ : r.sessionId # sid}], Ok(<<>>), 1)

SQLiteSession_clearSession(db, sid, f) ==
    IF f = Fault("delete") THEN Out(db, Err("", EngineError), 1)
    ELSE Out([db EXCEPT !.messages = @ \ Where(@, sid)], Ok(<<>>), 1)

(***************************************************************************)
(* SequelizeSession.                                                       *)
(***************************************************************************)
SequelizeSession_getLength(db, sid) == Cardinality(Where(db.messages, sid))

\* findAll({where, order: id ASC, limit, offset}); a negative limit that the
\* dialect accepts bounds nothing
SequelizeSession_findAll(db, sid, limit, offset) ==
    LET sorted == Offset(OrderById(Where(db.messages, sid)), offset)
    IN IF limit = Undefined THEN sorted ELSE SqliteLimit(sorted, limit[1])

SequelizeSession_getItems(db, sid, limit, f) ==
    IF Truthy(limit)
    THEN IF f = Fault("count") THEN Out(db, Err("", EngineError), 1)
         ELSE IF f = Fault("select") THEN Out(db, Err("", EngineError), 2)
         ELSE LET offset == Max(0, SequelizeSession_getLength(db, sid) - limit[1])
              IN Out(db, ParseAll(SequelizeSession_findAll(db, sid, limit, offset)), 2)
    ELSE IF f = Fault("select") THEN Out(db, Err("", EngineError), 1)
         ELSE Out(db, ParseAll(SequelizeSession_findAll(db, sid, limit, 0)), 1)

SequelizeSession_addItems(db, sid, batch, clock, f) ==
    IF Len(batch) = 0 THEN Out(db, Ok(<<>>), 0)
    ELSE IF f = Fault("insert") THEN Out(db, Err("", EngineError), 1)
    ELSE Out([db EXCEPT !.messages = InsertRows(@, db.nextId, sid, batch, clock),
                        !.nextId = @ + Len(batch)],
             Ok(<<>>), 1)

SequelizeSession_popItem(db, sid, f) ==
    IF f = Fault("select") THEN Out(db, Err("", EngineError), 1)
    ELSE LET found == Limit(Reverse(OrderById(Where(db.messages, sid))), 1)
         IN IF found = <<>> THEN Out(db, Ok(Undefined), 1)
            ELSE IF ~CanParse(found[1].data) THEN Out(db, Err("", ParseError), 1)
            ELSE IF f = Fault("delete") THEN Out(db, Err("", EngineError), 2)
            ELSE Out([db EXCEPT !.messages = {r \in @ : r.id # found[1].id}],
                     Ok(Some(JSONparse(found[1].data))), 2)

SequelizeSession_clearSession(db, sid, f) ==
    IF f = Fault("delete") THEN Out(db, Err("", EngineError), 1)
    ELSE Out([db EXCEPT !.messages = @ \ Where(@, sid)], Ok(<<>>), 1)

(***************************************************************************)
(* DrizzleSession: one class, three dialects.  The item table is           *)
(* agent_messages, db.sessions is agent_sessions: rows [sessionId,         *)
(* createdAt, updatedAt].                                                  *)
(***************************************************************************)
\* rows.map(JSON.parse) inside a try, the failures filtered out
parseItems(rowSeq) ==
    LET Keep(i) == CanParse(rowSeq[i].data)
        kept == SelectSeq([i \in 1 .. Len(rowSeq) |-> i], Keep)
    IN [j \in 1 .. Len(kept) |-> JSONparse(rowSeq[kept[j]].data)]

\* SELECT ... WHERE id IN (SELECT id ... WHERE session_id = sid
\*   ORDER BY created_at DESC, id DESC LIMIT k) ORDER BY created_at ASC, id ASC
TailWindowQuery(messages, sid, k) ==
    LET inner == Limit(Reverse(OrderByTimeId(Where(messages, sid))), k)
        ids == {inner[i].id : i \in 1 .. Len(inner)}
    IN OrderByTimeId({r \in messages : r.id \in ids})

\* SELECT ... WHERE session_id = sid ORDER BY created_at ASC, id ASC
AllItemsQuery(messages, sid) == OrderByTimeId(Where(messages, sid))

\* the rows a dialect's getItems reads, or the statement's failure
DrizzleSelect(db, sid, limit, f, prefix) ==
    IF limit # Undefined /\ limit[1] <= 0 THEN Out(db, Ok(<<>>), 0)
    ELSE IF f = Fault("select") THEN Out(db, Err(prefix, EngineError), 1)
    ELSE IF limit # Undefined
    THEN Out(db, Ok(parseItems(TailWindowQuery(db.messages, sid, limit[1]))), 1)
    ELSE Out(db, Ok(parseItems(AllItemsQuery(db.messages, sid))), 1)

\* getItems catches what getSqliteItems throws; the promise getAsyncItems
\* returns is returned without await, so its rejection passes the catch
getSqliteItems(db, sid, limit, f) ==
    DrizzleSelect(db, sid, limit, f, "Failed to get items")

getPgItems(db, sid, limit, f) == DrizzleSelect(db, sid, limit, f, "")

getMysqlItems(db, sid, limit, f) == DrizzleSelect(db, sid, limit, f, "")

\* the same DELETE on a schema whose foreign key does not cascade
DeleteSessionOnly(db, sid) ==
    [db EXCEPT !.sessions = {r \in @ : r.sessionId # sid}]

\* DELETE FROM agent_sessions WHERE session_id = sid, with the foreign key's
\* ON DELETE CASCADE on agent_messages
DeleteSessionCascade(db, sid) ==
    [db EXCEPT !.sessions = {r \in @ : r.sessionId # sid},
               !.messages = @ \ Where(@, sid)]

\* the four statements of addSqliteItems / addPgItems / addMysqlItems, each
\* committed on its own; addItems wraps whatever one of them throws
DrizzleAdd(db, sid, batch, clock, f) ==
    LET prefix == "Failed to add items"
        existing == \E r \in db.sessions : r.sessionId = sid
        withSession ==
            IF existing THEN db
            ELSE [db EXCEPT !.sessions = @ \cup
                     {[sessionId |-> sid, createdAt |-> clock, updatedAt |-> clock]}]
        sent == IF existing THEN 1 ELSE 2
        withMessages ==
            [withSession EXCEPT
                !.messages = InsertRows(@, db.nextId, sid, batch, clock),
                !.nextId = @ + Len(batch)]
        touched ==
            [withMessages EXCEPT
                !.sessions = {IF r.sessionId = sid
                              THEN [r EXCEPT !.updatedAt = clock] ELSE r : r \in @}]
    IN IF f = Fault("lookup") THEN Out(db, Err(prefix, EngineError), 1)
       ELSE IF ~existing /\ f = Fault("insertSession")
       THEN Out(db, Err(prefix, EngineError), 2)
       ELSE IF f = Fault("insertMessages")
       THEN Out(withSession, Err(prefix, EngineError), sent + 1)
       ELSE IF f = Fault("updateSession")
       THEN Out(withMessages, Err(prefix, EngineError), sent + 2)
       ELSE Out(touched, Ok(<<>>), sent + 2)

addSqliteItems(db, sid, batch, clock, f) == DrizzleAdd(db, sid, batch, clock, f)

addPgItems(db, sid, batch, clock, f) == DrizzleAdd(db, sid, batch, clock, f)

addMysqlItems(db, sid, batch, clock, f) == DrizzleAdd(db, sid, batch, clock, f)

\* JSON.parse of the popped payload inside a try: a failure yields undefined
ParsePopped(data) == IF CanParse(data) THEN Some(JSONparse(data)) ELSE Undefined

\* SELECT id, message_data ... ORDER BY created_at DESC, id DESC LIMIT 1
NewestRow(messages, sid) == Limit(Reverse(OrderByTimeId(Where(messages, sid))), 1)

\* select the newest row, then delete it by id (SQLite and MySQL)
SelectThenDelete(db, sid, f, prefix) ==
    IF f = Fault("select") THEN Out(db, Err(prefix, EngineError), 1)
    ELSE LET rows == NewestRow(db.messages, sid)
         IN IF Len(rows) = 0 THEN Out(db, Ok(Undefined), 1)
            ELSE IF f = Fault("delete") THEN Out(db, Err(prefix, EngineError), 2)
            ELSE Out([db EXCEPT !.messages = {r \in @ : r.id # rows[1].id}],
                     Ok(ParsePopped(rows[1].data)), 2)

popSqliteItem(db, sid, f) == SelectThenDelete(db, sid, f, "Failed to pop item")

popMysqlItem(db, sid, f) == SelectThenDelete(db, sid, f, "")

\* select the newest id, then DELETE ... WHERE id = ? RETURNING message_data
popPgItem(db, sid, f) ==
    IF f = Fault("select") THEN Out(db, Err("", EngineError), 1)
    ELSE LET rows == NewestRow(db.messages, sid)
         IN IF Len(rows) = 0 THEN Out(db, Ok(Undefined), 1)
            ELSE IF f = Fault("delete") THEN Out(db, Err("", EngineError), 2)
            ELSE LET deleted == {r \in db.messages : r.id = rows[1].id}
                 IN IF deleted = {} THEN Out(db, Ok(Undefined), 2)
                    ELSE Out([db EXCEPT !.messages = @ \ deleted],
                             Ok(ParsePopped((CHOOSE r \in deleted : TRUE).data)), 2)

\* a getItems that registers the session key on first use
GetOrCreateItems(kind, db, sid, limit, f) ==
    Out([db EXCEPT !.sessions = @ \cup
            {[sessionId |-> sid, createdAt |-> 0, updatedAt |-> 0]}],
        Ok(parseItems(AllItemsQuery(db.messages, sid))), 1)

DrizzleSession_getItems(kind, db, sid, limit, f) ==
    CASE kind = "drizzle_sqlite" -> getSqliteItems(db, sid, limit, f)
      [] kind = "drizzle_pg" -> getPgItems(db, sid, limit, f)
      [] OTHER -> getMysqlItems(db, sid, limit, f)

\* addItems without the early return on an empty batch
UnguardedAddItems(kind, db, sid, batch, clock, f) ==
    DrizzleAdd(db, sid, batch, clock, f)

DrizzleSession_addItems(kind, db, sid, batch, clock, f) ==
    IF Len(batch) = 0 THEN Out(db, Ok(<<>>), 0)
    ELSE CASE kind = "drizzle_sqlite" -> addSqliteItems(db, sid, batch, clock, f)
           [] kind = "drizzle_pg" -> addPgItems(db, sid, batch, clock, f)
           [] OTHER -> addMysqlItems(db, sid, batch, clock, f)

DrizzleSession_popItem(kind, db, sid, f) ==
    CASE kind = "drizzle_sqlite" -> popSqliteItem(db, sid, f)
      [] kind = "drizzle_pg" -> popPgItem(db, sid, f)
      [] OTHER -> popMysqlItem(db, sid, f)

DrizzleSession_clearSession(kind, db, sid, f) ==
    IF f = Fault("delete") THEN Out(db, Err("Failed to clear session", EngineError), 1)
    ELSE Out(DeleteSessionCascade(db, sid), Ok(<<>>), 1)

(***************************************************************************)
(* State.                                                                  *)
(***************************************************************************)
VARIABLES
    kind,       \* the adapter class of the caller's sessions
    items,      \* InMemorySession.items of the instance of each session key
    messages,   \* the item table (session_items / agent_messages)
    sessions,   \* agent_sessions
    nextId,     \* the item table's auto-increment counter
    now,        \* the wall clock that stamps created_at and updated_at
    last,       \* the last call: operation, arguments, result
    boot,       \* DrizzleSession.fromUrl: its progress, the handle, close()
    seq,        \* a SequelizeSession: how it was built, its Sequelize handle
    pops,       \* two popItem calls in flight on one key
    removed,    \* the rows those calls have deleted
    adds,       \* two addItems calls in flight on one key
    held,       \* an array getItems returned to a caller who kept it
    reads       \* a SequelizeSession.getItems(k) call in flight

vars == <<kind, items, messages, sessions, nextId, now, last, boot, seq, pops,
          removed, adds, held, reads>>

\* the whole store: the arrays of the in-memory sessions and the database
Store == [items |-> items, messages |-> messages, sessions |-> sessions,
          nextId |-> nextId]

(***************************************************************************)
(* The session of key sid of class k on store st: the store it leaves, the *)
(* call's result and the number of statements issued.  InMemorySession     *)
(* issues none and never fails.                                            *)
(***************************************************************************)
DBOf(st) == [messages |-> st.messages, sessions |-> st.sessions, nextId |-> st.nextId]

WithDB(st, out) ==
    Out([st EXCEPT !.messages = out.db.messages, !.sessions = out.db.sessions,
                   !.nextId = out.db.nextId],
        out.res, out.io)

Session_getItems(k, st, sid, limit, f) ==
    CASE k = "memory" ->
            Out(st, Ok(InMemorySession_getItems(st.items[sid], limit)), 0)
      [] k = "sqlite" -> WithDB(st, SQLiteSession_getItems(DBOf(st), sid, limit, f))
      [] k = "sequelize" ->
            WithDB(st, SequelizeSession_getItems(DBOf(st), sid, limit, f))
      [] OTHER -> WithDB(st, DrizzleSession_getItems(k, DBOf(st), sid, limit, f))

Session_addItems(k, st, sid, batch, clock, f) ==
    CASE k = "memory" ->
            Out([st EXCEPT !.items[sid] = InMemorySession_addItems(@, batch)],
                Ok(<<>>), 0)
      [] k = "sqlite" ->
            WithDB(st, SQLiteSession_addItems(DBOf(st), sid, batch, clock, f))
      [] k = "sequelize" ->
            WithDB(st, SequelizeSession_addItems(DBOf(st), sid, batch, clock, f))
      [] OTHER ->
            WithDB(st, DrizzleSession_addItems(k, DBOf(st), sid, batch, clock, f))

Session_popItem(k, st, sid, f) ==
    CASE k = "memory" ->
            LET popped == InMemorySession_popItem(st.items[sid])
            IN Out([st EXCEPT !.items[sid] = popped.arr], Ok(popped.ret), 0)
      [] k = "sqlite" -> WithDB(st, SQLiteSession_popItem(DBOf(st), sid, f))
      [] k = "sequelize" -> WithDB(st, SequelizeSession_popItem(DBOf(st), sid, f))
      [] OTHER -> WithDB(st, DrizzleSession_popItem(k, DBOf(st), sid, f))

Session_clearSession(k, st, sid, f) ==
    CASE k = "memory" ->
            Out([st EXCEPT !.items[sid] = InMemorySession_clearSession(@)],
                Ok(<<>>), 0)
      [] k = "sqlite" -> WithDB(st, SQLiteSession_clearSession(DBOf(st), sid, f))
      [] k = "sequelize" ->
            WithDB(st, SequelizeSession_clearSession(DBOf(st), sid, f))
      [] OTHER -> WithDB(st, DrizzleSession_clearSession(k, DBOf(st), sid, f))

\* the statements the engine may refuse in a getItems, addItems, popItem,
\* clearSession call
GetFaults == {NoFault, Fault("select"), Fault("count")}
AddFaults ==
    {NoFault, Fault("lookup"), Fault("insertSession"), Fault("insertMessages"),
     Fault("updateSession")} \cup {<<"insert", j>> : j \in 1 .. MaxBatch}
PopFaults == {NoFault, Fault("select"), Fault("delete")}
ClearFaults == {NoFault, Fault("delete")}

\* the key holds nothing in the store: no element, no item row, no session row
Fresh(st, sid) ==
    /\ st.items[sid] = <<>>
    /\ Where(st.messages, sid) = {}
    /\ ~\E r \in st.sessions : r.sessionId = sid

(***************************************************************************)
(* DrizzleSession.fromUrl.  A URL is its scheme prefix and the rest; the   *)
(* caller's config overrides DEFAULT_CONFIG field by field.                *)
(***************************************************************************)
\* largest maxRetries a caller configures (the smallest is -1)
MaxRetries == 3
\* close() calls a caller makes on one session
MaxCloses == 2
\* CREATE statements ensureTables issues (two tables, one index)
EnsureStatements == 3

Urls ==
    {<<"sqlite:", ":memory:">>, <<"sqlite:", "">>, <<"postgres://", "host/db">>,
     <<"postgresql://", "host/db">>, <<"mysql://", "host/db">>,
     <<"http://", "host/db">>}

DEFAULT_CONFIG ==
    [createTables |-> TRUE, maxRetries |-> 3, retryDelay |-> 1000,
     connectionTimeout |-> 10000]

\* the config argument: a field is given or omitted
Configs ==
    [createTables : {Undefined, Some(TRUE), Some(FALSE)},
     maxRetries : {Undefined} \cup {Some(n) : n \in -1 .. MaxRetries}]

\* { ...DEFAULT_CONFIG, ...config }
FinalConfig(config) ==
    [DEFAULT_CONFIG EXCEPT
        !.createTables = IF config.createTables = Undefined THEN @
                         ELSE config.createTables[1],
        !.maxRetries = IF config.maxRetries = Undefined THEN @
                       ELSE config.maxRetries[1]]

\* the rejection of fromUrl: prefix, the attempt count and the url the
\* message reports, the underlying message
BootErr(prefix, attempts, url, msg) ==
    [prefix |-> prefix, attempts |-> attempts, url |-> url, msg |-> msg]
NoErr == BootErr("", Undefined, <<>>, "")

\* a parse that takes any other scheme for a SQLite path
LenientParseUrl(url) ==
    IF url[1] \in {"postgres://", "postgresql://"}
    THEN [ok |-> TRUE, protocol |-> "postgres", err |-> NoErr]
    ELSE IF url[1] = "mysql://"
    THEN [ok |-> TRUE, protocol |-> "mysql", err |-> NoErr]
    ELSE [ok |-> TRUE, protocol |-> "sqlite", err |-> NoErr]

parseUrl(url) ==
    IF url[1] = "sqlite:"
    THEN [ok |-> TRUE, protocol |-> "sqlite", err |-> NoErr]
    ELSE IF url[1] \in {"postgres://", "postgresql://"}
    THEN [ok |-> TRUE, protocol |-> "postgres", err |-> NoErr]
    ELSE IF url[1] = "mysql://"
    THEN [ok |-> TRUE, protocol |-> "mysql", err |-> NoErr]
    ELSE [ok |-> FALSE, protocol |-> "",
          err |-> BootErr("Unsupported database URL", Undefined, url, "")]

\* an unwrapped rejection
RawCreateError(msg) == BootErr("", Undefined, <<>>, msg)

\* the catch of createSqliteSession
SqliteCreateError(msg) ==
    BootErr("Failed to create SQLite session", Undefined, <<>>, msg)

\* the catch of createPostgresSession / createMysqlSession at the last attempt
ServerCreateError(protocol, maxRetries, msg) ==
    BootErr(IF protocol = "postgres"
            THEN "Failed to create PostgreSQL session after"
            ELSE "Failed to create MySQL session after",
            Some(maxRetries), <<>>, msg)

\* the throw after the retry loop
LoopSkippedError(protocol) ==
    BootErr(IF protocol = "postgres" THEN "Failed to create PostgreSQL session"
            ELSE "Failed to create MySQL session",
            Undefined, <<>>, "")

\* the objects ensureTables creates, in the order of its statements
Schema == <<"agent_sessions", "agent_messages", "idx_agent_messages_session_time">>

\* what a database may hold of them before fromUrl: nothing, or what the
\* first statements of an earlier run created
Schemas == {{Schema[i] : i \in 1 .. n} : n \in 0 .. EnsureStatements}

\* an ensureTables that leaves the index out
EnsureTablesOnly(tables, j) ==
    [ok |-> j = 0, issued |-> IF j = 0 THEN EnsureStatements ELSE j,
     tables |-> tables \cup {Schema[i] : i \in 1 .. (IF j = 0 THEN 2 ELSE Min(2, j - 1))}]

\* ensureTables on a database holding tables, the engine refusing its j-th
\* statement (0: none).  Each statement is CREATE ... IF NOT EXISTS: the
\* statements issued, whether it completed, and the objects present after
ensureTables(tables, j) ==
    [ok |-> j = 0, issued |-> IF j = 0 THEN EnsureStatements ELSE j,
     tables |-> tables \cup
                {Schema[i] : i \in 1 .. (IF j = 0 THEN EnsureStatements ELSE j - 1)}]

\* the statement of addItems that a database lacking a table refuses
SchemaFault(tables) ==
    IF "agent_sessions" \notin tables THEN Fault("lookup")
    ELSE IF "agent_messages" \notin tables THEN Fault("insertMessages")
    ELSE NoFault

\* a catch block that leaves the failure count as it was
ForgetFailure(retries) == retries

\* retries++ in the catch block of the retry loop
CountFailure(retries) == retries + 1

\* a cleanup callback that lets the handle's failure through
UncaughtCleanup(handle, threw) ==
    [handle |-> IF threw THEN handle ELSE "ended", caught |-> FALSE,
     res |-> IF threw THEN Err("", EngineError) ELSE Ok(Undefined)]

\* the cleanup callback: sqlite.close() / pool.end() inside a try whose catch
\* only logs; threw: the handle's method raised
cleanup(handle, threw) ==
    [handle |-> IF threw THEN handle ELSE "ended", caught |-> threw,
     res |-> Ok(Undefined)]

NoBoot ==
    [pc |-> "idle", url |-> <<"sqlite:", ":memory:">>, config |-> DEFAULT_CONFIG,
     protocol |-> "", imported |-> FALSE, handle |-> "none", ends |-> 0,
     retries |-> 0, attempts |-> 0, delays |-> 0, stmts |-> 0, err |-> NoErr,
     closes |-> 0, closeRes |-> Ok(Undefined), caught |-> FALSE,
     given |-> Undefined, tables |-> {}, ensureCalls |-> 0, discarded |-> 0]

(***************************************************************************)
(* SequelizeSession and SQLiteSession: construction and close.  A close     *)
(* yields the handle it leaves, whether it called the handle's close, and  *)
(* its result; threw: the handle's close raised.                           *)
(***************************************************************************)
\* a close() that closes the handle whoever owns it
CloseAnyHandle(ownSequelize, handle, threw) ==
    [handle |-> "closed", called |-> TRUE, res |-> Ok(Undefined)]

\* close(): if (this.ownSequelize) await this.sequelize.close()
SequelizeSession_close(ownSequelize, handle, threw) ==
    IF ~ownSequelize
    THEN [handle |-> handle, called |-> FALSE, res |-> Ok(Undefined)]
    ELSE IF threw
    THEN [handle |-> handle, called |-> TRUE, res |-> Err("", EngineError)]
    ELSE [handle |-> "closed", called |-> TRUE, res |-> Ok(Undefined)]

\* close(): this.db.close()
SQLiteSession_close(handle, threw) ==
    IF threw THEN [handle |-> handle, called |-> TRUE, res |-> Err("", EngineError)]
    ELSE [handle |-> "closed", called |-> TRUE, res |-> Ok(Undefined)]

NoSeq ==
    [built |-> "none", ownSequelize |-> FALSE, handle |-> "none", closes |-> 0,
     handleCloses |-> 0, closeRes |-> Ok(Undefined)]

(***************************************************************************)
(* The two statements of popPgItem, for calls that interleave.             *)
(***************************************************************************)
\* the callers of the interleaved popItem calls
Poppers == {1, 2}

\* a DELETE by id that returns nothing
DeleteWithoutReturning(table, id) ==
    [messages |-> {r \in table : r.id # id}, returned |-> {}]

\* SELECT id ... ORDER BY created_at DESC, id DESC LIMIT 1
popPgSelect(table, sid) == NewestRow(table, sid)

\* DELETE ... WHERE id = ? RETURNING message_data: the table left, the rows
\* deleted and returned
popPgDelete(table, id) ==
    [messages |-> {r \in table : r.id # id},
     returned |-> {r \in table : r.id = id}]

\* SELECT id, message_data ... ORDER BY created_at DESC, id DESC LIMIT 1
popMysqlSelect(table, sid) == NewestRow(table, sid)

\* a DELETE by id whose result decides what the call returns, as RETURNING does
DeleteReturning(table, id, data) ==
    [messages |-> {r \in table : r.id # id},
     ret |-> IF \E r \in table : r.id = id THEN ParsePopped(data) ELSE Undefined]

\* DELETE ... WHERE id = ?, then JSON.parse of the payload the SELECT read:
\* the table left and the value returned
popMysqlDelete(table, id, data) ==
    [messages |-> {r \in table : r.id # id}, ret |-> ParsePopped(data)]

\* findOne({where, order: id DESC})
SequelizeSession_findOne(table, sid) == Limit(Reverse(OrderById(Where(table, sid))), 1)

\* JSON.parse(row.itemData), then row.destroy(): DELETE ... WHERE id = ?
SequelizeSession_destroy(table, id, data) ==
    [messages |-> {r \in table : r.id # id}, ret |-> Some(JSONparse(data))]

\* a popItem call: where it stands, the row it selected (id, and the payload
\* when the SELECT reads it), what it returned, and whether the key held no
\* item at some moment since the call started
NoPop == [pc |-> "idle", id |-> 0, data |-> <<>>, ret |-> Undefined, empty |-> FALSE]

(***************************************************************************)
(* The statements of addSqliteItems / addPgItems / addMysqlItems, for      *)
(* calls that interleave.                                                  *)
(***************************************************************************)
\* the callers of the interleaved addItems calls
Adders == {1, 2}

\* SELECT session_id FROM agent_sessions WHERE session_id = sid: a row exists
addLookup(table, sid) == \E r \in table : r.sessionId = sid

\* INSERT INTO agent_sessions (session_id): the primary key refuses a second
\* row of the same session_id
addInsertSession(table, sid, clock) ==
    IF \E r \in table : r.sessionId = sid
    THEN [ok |-> FALSE, sessions |-> table]
    ELSE [ok |-> TRUE,
          sessions |-> table \cup
              {[sessionId |-> sid, createdAt |-> clock, updatedAt |-> clock]}]

\* the INSERT of the batch on a schema without the foreign key
InsertUnchecked(table, parents, next, sid, batch, clock) ==
    [ok |-> TRUE, messages |-> InsertRows(table, next, sid, batch, clock),
     nextId |-> next + Len(batch)]

\* INSERT INTO agent_messages ... VALUES of the whole batch: session_id
\* REFERENCES agent_sessions(session_id), so the engine refuses the statement
\* when the session row is gone
addInsertMessages(table, parents, next, sid, batch, clock) ==
    IF \E r \in parents : r.sessionId = sid
    THEN [ok |-> TRUE, messages |-> InsertRows(table, next, sid, batch, clock),
          nextId |-> next + Len(batch)]
    ELSE [ok |-> FALSE, messages |-> table, nextId |-> next]

\* UPDATE agent_sessions SET updated_at = ? WHERE session_id = sid
addUpdateSession(table, sid, clock) ==
    {IF r.sessionId = sid THEN [r EXCEPT !.updatedAt = clock] ELSE r : r \in table}

\* an addItems call: where it stands, its batch, what the lookup found, the
\* id its first row got (0: no row inserted), its result
NoAdd ==
    [pc |-> "idle", batch |-> <<>>, existing |-> FALSE, first |-> 0,
     res |-> Ok(<<>>)]

\* the array a caller holds: whether one was returned, the limit of the call,
\* whether it is the session's own array object or a fresh one, its elements
NoArray == [taken |-> FALSE, limit |-> Undefined, own |-> FALSE, val |-> <<>>]

\* a getItems(k) call: where it stands, its limit, the offset computed from
\* the count, its result, and the row sets the key had while it ran
NoRead ==
    [pc |-> "idle", limit |-> Undefined, offset |-> 0, res |-> Ok(<<>>),
     seen |-> {}]

NoCall ==
    [op |-> "none", sid |-> "A", limit |-> Undefined, batch |-> <<>>,
     fault |-> NoFault, fresh |-> TRUE, res |-> Ok(<<>>), io |-> 0]

Init ==
    /\ kind \in Kinds
    /\ items = [s \in Keys |-> <<>>]
    /\ messages = {}
    /\ sessions = {}
    /\ nextId = 1
    /\ now = 0
    /\ last = NoCall
    /\ boot = NoBoot
    /\ seq = NoSeq
    /\ pops = [p \in Poppers |-> NoPop]
    /\ removed = {}
    /\ adds = [a \in Adders |-> NoAdd]
    /\ held = NoArray
    /\ reads = NoRead

\* the call's record: its arguments, whether the key was fresh when it was
\* made, the fault when it was on the call's path, and what the call returned
Record(op, sid, limit, batch, f, out, healthy) ==
    [op |-> op, sid |-> sid, limit |-> limit, batch |-> batch,
     fault |-> IF out # healthy THEN f ELSE NoFault,
     fresh |-> Fresh(Store, sid), res |-> out.res, io |-> out.io]

Commit(st) ==
    /\ items' = st.items
    /\ messages' = st.messages
    /\ sessions' = st.sessions
    /\ nextId' = st.nextId

\* rows and array elements the store holds
Stored(st) == Cardinality(st.messages) + Len(st.items["A"]) + Len(st.items["B"])

(***************************************************************************)
(* The caller's calls.  F is the set of faults the engine may raise, K the  *)
(* session keys in use.                                                    *)
(***************************************************************************)
GetItems(F, K) ==
    \E sid \in K, limit \in Limits, f \in F \cap GetFaults :
        LET out == Session_getItems(kind, Store, sid, limit, f)
            healthy == Session_getItems(kind, Store, sid, limit, NoFault)
        IN /\ Commit(out.db)
           /\ last' = Record("get", sid, limit, <<>>, f, out, healthy)
           /\ UNCHANGED <<kind, now, boot, seq, pops, removed, adds, held, reads>>

AddItems(F, K) ==
    \E sid \in K, batch \in Batches, f \in F \cap AddFaults :
        LET out == Session_addItems(kind, Store, sid, batch, now, f)
            healthy == Session_addItems(kind, Store, sid, batch, now, NoFault)
        IN /\ Stored(Store) + Len(batch) <= MaxRows
           /\ nextId + Len(batch) - 1 <= MaxId
           /\ Commit(out.db)
           /\ last' = Record("add", sid, Undefined, batch, f, out, healthy)
           /\ UNCHANGED <<kind, now, boot, seq, pops, removed, adds, held, reads>>

PopItem(F, K) ==
    \E sid \in K, f \in F \cap PopFaults :
        LET out == Session_popItem(kind, Store, sid, f)
            healthy == Session_popItem(kind, Store, sid, NoFault)
        IN /\ Commit(out.db)
           /\ last' = Record("pop", sid, Undefined, <<>>, f, out, healthy)
           /\ UNCHANGED <<kind, now, boot, seq, pops, removed, adds, held, reads>>

ClearSession(F, K) ==
    \E sid \in K, f \in F \cap ClearFaults :
        LET out == Session_clearSession(kind, Store, sid, f)
            healthy == Session_clearSession(kind, Store, sid, NoFault)
        IN /\ Commit(out.db)
           /\ last' = Record("clear", sid, Undefined, <<>>, f, out, healthy)
           /\ UNCHANGED <<kind, now, boot, seq, pops, removed, adds, held, reads>>

\* the wall clock moves: forward, or back when it is set or corrected
Tick ==
    /\ now' \in (0 .. MaxClock) \ {now}
    /\ UNCHANGED <<kind, items, messages, sessions, nextId, last, boot, seq, pops,
                   removed, adds, held, reads>>

\* two session keys on a healthy engine
Next ==
    \/ GetItems({NoFault}, Keys)
    \/ AddItems({NoFault}, Keys)
    \/ PopItem({NoFault}, Keys)
    \/ ClearSession({NoFault}, Keys)
    \/ Tick

Spec == Init /\ [][Next]_vars

\* one session key on an engine that may refuse any statement
AllFaults == GetFaults \cup AddFaults \cup PopFaults \cup ClearFaults

NextFault ==
    \/ GetItems(AllFaults, {"A"})
    \/ AddItems(AllFaults, {"A"})
    \/ PopItem(AllFaults, {"A"})
    \/ ClearSession(AllFaults, {"A"})
    \/ Tick

SpecFault == Init /\ [][NextFault]_vars

(***************************************************************************)
(* Construction and release of a DrizzleSession.                           *)
(***************************************************************************)
\* the dialect a successfully built session of protocol p has
DialectOf(p) ==
    CASE p = "sqlite" -> "drizzle_sqlite"
      [] p = "postgres" -> "drizzle_pg"
      [] OTHER -> "drizzle_mysql"

\* the urls a caller of dialect k passes: those of the dialect, and the
\* unsupported ones
UrlsOf(k) == {url \in Urls : parseUrl(url).ok => DialectOf(parseUrl(url).protocol) = k}

\* fromUrl up to its dispatch: merge the config, parse the url
FromUrl ==
    /\ boot.pc = "idle"
    /\ \E url \in UrlsOf(kind), config \in Configs, present \in Schemas :
        LET parsed == parseUrl(url)
        IN boot' = [boot EXCEPT
                       !.url = url,
                       !.given = config.createTables,
                       !.tables = present,
                       !.config = FinalConfig(config),
                       !.protocol = parsed.protocol,
                       !.err = parsed.err,
                       !.pc = IF ~parsed.ok THEN "rejected"
                              ELSE IF parsed.protocol = "sqlite" THEN "sqlite"
                              ELSE "pool"]
    /\ UNCHANGED <<kind, items, messages, sessions, nextId, now, last, seq, pops,
                   removed, adds, held, reads>>

\* one try: load the driver, open the database (opened: it did not throw),
\* build the session, ensureTables when configured (j: the refused statement);
\* the session object of a failed ensureTables is dropped with its cleanup
\* callback registered
createSqliteSession ==
    /\ boot.pc = "sqlite"
    /\ \E opened \in BOOLEAN, j \in 0 .. EnsureStatements :
        LET made == IF boot.config.createTables THEN ensureTables(boot.tables, j)
                    ELSE [ok |-> TRUE, issued |-> 0, tables |-> boot.tables]
        IN boot' = [boot EXCEPT
                       !.imported = TRUE,
                       !.attempts = 1,
                       !.handle = IF opened THEN "open" ELSE "none",
                       !.stmts = IF opened THEN made.issued ELSE 0,
                       !.tables = IF opened THEN made.tables ELSE @,
                       !.ensureCalls = IF opened /\ boot.config.createTables
                                       THEN 1 ELSE 0,
                       !.discarded = IF opened /\ ~made.ok THEN 1 ELSE 0,
                       !.err = IF opened /\ made.ok THEN NoErr
                               ELSE SqliteCreateError(EngineError),
                       !.pc = IF opened /\ made.ok THEN "resolved" ELSE "rejected"]
    /\ UNCHANGED <<kind, items, messages, sessions, nextId, now, last, seq, pops,
                   removed, adds, held, reads>>

\* createPostgresSession / createMysqlSession up to the loop: load the driver,
\* create the pool (it connects lazily), test the loop condition
CreatePool ==
    /\ boot.pc = "pool"
    /\ boot' = [boot EXCEPT
                   !.imported = TRUE,
                   !.handle = "open",
                   !.retries = 0,
                   !.err = IF 0 < boot.config.maxRetries THEN NoErr
                           ELSE LoopSkippedError(boot.protocol),
                   !.pc = IF 0 < boot.config.maxRetries THEN "attempt"
                          ELSE "rejected"]
    /\ UNCHANGED <<kind, items, messages, sessions, nextId, now, last, seq, pops,
                   removed, adds, held, reads>>

\* one iteration of the loop: build the session, ensureTables when configured;
\* on a failure count it and either end the pool and reject or go to the delay.
\* The session object of a failed iteration is dropped with its cleanup
\* callback registered.  No iteration runs beyond the largest maxRetries, and
\* a pool that has been ended refuses the first statement.
Attempt ==
    /\ boot.pc = "attempt"
    /\ boot.attempts < MaxRetries
    /\ \E j \in IF boot.handle = "open" THEN 0 .. EnsureStatements ELSE {1} :
        LET made == IF boot.config.createTables THEN ensureTables(boot.tables, j)
                    ELSE [ok |-> TRUE, issued |-> 0, tables |-> boot.tables]
            called == IF boot.config.createTables THEN 1 ELSE 0
            retries == CountFailure(boot.retries)
            exhausted == retries >= boot.config.maxRetries
        IN boot' =
            IF made.ok
            THEN [boot EXCEPT !.attempts = @ + 1, !.stmts = @ + made.issued,
                              !.tables = made.tables,
                              !.ensureCalls = @ + called,
                              !.pc = "resolved"]
            ELSE [boot EXCEPT
                     !.attempts = @ + 1,
                     !.stmts = @ + made.issued,
                     !.tables = made.tables,
                     !.ensureCalls = @ + called,
                     !.retries = retries,
                     !.discarded = @ + 1,
                     !.handle = IF exhausted THEN "ended" ELSE @,
                     !.ends = IF exhausted THEN @ + 1 ELSE @,
                     !.err = IF exhausted
                             THEN ServerCreateError(boot.protocol,
                                                    boot.config.maxRetries, EngineError)
                             ELSE @,
                     !.pc = IF exhausted THEN "rejected" ELSE "delay"]
    /\ UNCHANGED <<kind, items, messages, sessions, nextId, now, last, seq, pops,
                   removed, adds, held, reads>>

\* setTimeout(resolve, config.retryDelay), then the loop condition again
RetryDelay ==
    /\ boot.pc = "delay"
    /\ boot' = [boot EXCEPT
                   !.delays = @ + 1,
                   !.err = IF boot.retries < boot.config.maxRetries THEN @
                           ELSE LoopSkippedError(boot.protocol),
                   !.pc = IF boot.retries < boot.config.maxRetries THEN "attempt"
                          ELSE "rejected"]
    /\ UNCHANGED <<kind, items, messages, sessions, nextId, now, last, seq, pops,
                   removed, adds, held, reads>>

\* close() on the session fromUrl returned: unregister, await this.cleanup()
Close ==
    /\ boot.pc = "resolved"
    /\ boot.closes < MaxCloses
    /\ \E threw \in BOOLEAN :
        LET done == cleanup(boot.handle, threw)
        IN boot' = [boot EXCEPT !.closes = @ + 1, !.ends = @ + 1,
                                !.handle = done.handle, !.closeRes = done.res,
                                !.caught = done.caught]
    /\ UNCHANGED <<kind, items, messages, sessions, nextId, now, last, seq, pops,
                   removed, adds, held, reads>>

\* addItems on the session fromUrl returned, before any close(), on the
\* database as fromUrl left it
AddOnOpened ==
    /\ boot.pc = "resolved"
    /\ boot.closes = 0
    /\ AddItems({SchemaFault(boot.tables)}, {"A"})

NextOpen ==
    \/ FromUrl
    \/ createSqliteSession
    \/ CreatePool
    \/ Attempt
    \/ RetryDelay
    \/ AddOnOpened
    \/ Close

InitOpen ==
    /\ Init
    /\ kind \in DrizzleKinds

SpecOpen == InitOpen /\ [][NextOpen]_vars

(***************************************************************************)
(* fromUrl alone, with every step it has begun running to its end: the     *)
(* driver import, the attempt and the delay terminate.                     *)
(***************************************************************************)
NextSettle ==
    \/ FromUrl
    \/ createSqliteSession
    \/ CreatePool
    \/ Attempt
    \/ RetryDelay

SpecSettle ==
    /\ InitOpen
    /\ [][NextSettle]_vars
    /\ WF_vars(createSqliteSession)
    /\ WF_vars(CreatePool)
    /\ WF_vars(Attempt)
    /\ WF_vars(RetryDelay)

(***************************************************************************)
(* fromUrl, close() and the garbage collector: the FinalizationRegistry of *)
(* a dropped session object may run the cleanup callback registered for it *)
(* at any later moment, or never.                                          *)
(***************************************************************************)
Finalize ==
    /\ boot.discarded > 0
    /\ \E threw \in BOOLEAN :
        LET done == cleanup(boot.handle, threw)
        IN boot' = [boot EXCEPT !.discarded = @ - 1, !.ends = @ + 1,
                                !.handle = done.handle]
    /\ UNCHANGED <<kind, items, messages, sessions, nextId, now, last, seq, pops,
                   removed, adds, held, reads>>

NextGC ==
    \/ NextSettle
    \/ Close
    \/ Finalize

SpecGC == InitOpen /\ [][NextGC]_vars

(***************************************************************************)
(* A SequelizeSession built either way, or a SQLiteSession, used and       *)
(* closed.                                                                 *)
(***************************************************************************)
\* SequelizeSession.fromUrl: new Sequelize(url), ownSequelize = true
SequelizeFromUrl ==
    /\ kind = "sequelize"
    /\ seq.built = "none"
    /\ seq' = [seq EXCEPT !.built = "fromUrl", !.ownSequelize = TRUE,
                          !.handle = "open"]
    /\ UNCHANGED <<kind, items, messages, sessions, nextId, now, last, boot, pops,
                   removed, adds, held, reads>>

\* SequelizeSession.fromSequelize on the application's open instance,
\* ownSequelize = false
fromSequelize ==
    /\ kind = "sequelize"
    /\ seq.built = "none"
    /\ seq' = [seq EXCEPT !.built = "fromSequelize", !.ownSequelize = FALSE,
                          !.handle = "open"]
    /\ UNCHANGED <<kind, items, messages, sessions, nextId, now, last, boot, pops,
                   removed, adds, held, reads>>

SequelizeClose ==
    /\ seq.built \in {"fromUrl", "fromSequelize"}
    /\ seq.closes < MaxCloses
    /\ \E threw \in BOOLEAN :
        LET done == SequelizeSession_close(seq.ownSequelize, seq.handle, threw)
        IN seq' = [seq EXCEPT
                      !.closes = @ + 1,
                      !.handle = done.handle,
                      !.handleCloses = IF done.called THEN @ + 1 ELSE @,
                      !.closeRes = done.res]
    /\ UNCHANGED <<kind, items, messages, sessions, nextId, now, last, boot, pops,
                   removed, adds, held, reads>>

\* new SQLiteSession(sessionId, dbPath): the instance opens its own database
NewSQLiteSession ==
    /\ kind = "sqlite"
    /\ seq.built = "none"
    /\ seq' = [seq EXCEPT !.built = "new", !.ownSequelize = TRUE, !.handle = "open"]
    /\ UNCHANGED <<kind, items, messages, sessions, nextId, now, last, boot, pops,
                   removed, adds, held, reads>>

SQLiteClose ==
    /\ seq.built = "new"
    /\ seq.closes < MaxCloses
    /\ \E threw \in BOOLEAN :
        LET done == SQLiteSession_close(seq.handle, threw)
        IN seq' = [seq EXCEPT
                      !.closes = @ + 1,
                      !.handle = done.handle,
                      !.handleCloses = IF done.called THEN @ + 1 ELSE @,
                      !.closeRes = done.res]
    /\ UNCHANGED <<kind, items, messages, sessions, nextId, now, last, boot, pops,
                   removed, adds, held, reads>>

\* the session is built and its handle is open
Usable == seq.built # "none" /\ seq.handle = "open"

NextOwn ==
    \/ SequelizeFromUrl
    \/ fromSequelize
    \/ SequelizeClose
    \/ NewSQLiteSession
    \/ SQLiteClose
    \/ Usable /\ GetItems({NoFault}, {"A"})
    \/ Usable /\ AddItems({NoFault}, {"A"})
    \/ Usable /\ PopItem({NoFault}, {"A"})
    \/ Usable /\ ClearSession({NoFault}, {"A"})

InitOwn ==
    /\ Init
    /\ kind \in {"sequelize", "sqlite"}

SpecOwn == InitOwn /\ [][NextOwn]_vars

(***************************************************************************)
(* Two popItem calls in flight on key "A" of a PostgreSQL DrizzleSession,  *)
(* with addItems calls between their statements.                           *)
(***************************************************************************)
PopSelect(p) ==
    /\ pops[p].pc = "idle"
    /\ LET rows == popPgSelect(messages, "A")
       IN pops' = [pops EXCEPT ![p] =
                      IF Len(rows) = 0
                      THEN [@ EXCEPT !.pc = "done", !.empty = Where(messages, "A") = {}]
                      ELSE [@ EXCEPT !.pc = "selected", !.id = rows[1].id]]
    /\ UNCHANGED <<kind, items, messages, sessions, nextId, now, last, boot, seq,
                   removed, adds, held, reads>>

PopDelete(p) ==
    /\ pops[p].pc = "selected"
    /\ LET deleted == popPgDelete(messages, pops[p].id)
       IN /\ messages' = deleted.messages
          /\ removed' = removed \cup (messages \ deleted.messages)
          /\ pops' = [q \in Poppers |->
                         IF q = p
                         THEN [pops[q] EXCEPT
                                 !.pc = "done",
                                 !.ret = IF deleted.returned = {} THEN Undefined
                                         ELSE ParsePopped(
                                            (CHOOSE r \in deleted.returned : TRUE).data),
                                 !.empty = @ \/ Where(messages, "A") = {}
                                             \/ Where(deleted.messages, "A") = {}]
                         ELSE IF pops[q].pc = "selected"
                         THEN [pops[q] EXCEPT
                                 !.empty = @ \/ Where(deleted.messages, "A") = {}]
                         ELSE pops[q]]
    /\ UNCHANGED <<kind, items, sessions, nextId, now, last, boot, seq, adds, held, reads>>

NextPop ==
    \/ \E p \in Poppers : PopSelect(p)
    \/ \E p \in Poppers : PopDelete(p)
    \/ AddItems({NoFault}, {"A"})
    \/ Tick

InitPop ==
    /\ Init
    /\ kind = "drizzle_pg"

SpecPop == InitPop /\ [][NextPop]_vars

(***************************************************************************)
(* Two popItem calls in flight on key "A" of a select-then-delete adapter  *)
(* (DrizzleSession on MySQL, SequelizeSession), with addItems calls        *)
(* between their statements.                                               *)
(***************************************************************************)
PopFind(p) ==
    /\ pops[p].pc = "idle"
    /\ LET rows == IF kind = "sequelize" THEN SequelizeSession_findOne(messages, "A")
                   ELSE popMysqlSelect(messages, "A")
       IN pops' = [pops EXCEPT ![p] =
                      IF Len(rows) = 0
                      THEN [@ EXCEPT !.pc = "done", !.empty = TRUE]
                      ELSE [@ EXCEPT !.pc = "selected", !.id = rows[1].id,
                                     !.data = rows[1].data]]
    /\ UNCHANGED <<kind, items, messages, sessions, nextId, now, last, boot, seq,
                   removed, adds, held, reads>>

PopDestroy(p) ==
    /\ pops[p].pc = "selected"
    /\ LET done == IF kind = "sequelize"
                   THEN SequelizeSession_destroy(messages, pops[p].id, pops[p].data)
                   ELSE popMysqlDelete(messages, pops[p].id, pops[p].data)
       IN /\ messages' = done.messages
          /\ removed' = removed \cup (messages \ done.messages)
          /\ pops' = [q \in Poppers |->
                         IF q = p
                         THEN [pops[q] EXCEPT
                                 !.pc = "done", !.ret = done.ret,
                                 !.empty = @ \/ Where(messages, "A") = {}
                                             \/ Where(done.messages, "A") = {}]
                         ELSE IF pops[q].pc = "selected"
                         THEN [pops[q] EXCEPT
                                 !.empty = @ \/ Where(done.messages, "A") = {}]
                         ELSE pops[q]]
    /\ UNCHANGED <<kind, items, sessions, nextId, now, last, boot, seq, adds, held, reads>>

NextRace ==
    \/ \E p \in Poppers : PopFind(p)
    \/ \E p \in Poppers : PopDestroy(p)
    \/ AddItems({NoFault}, {"A"})
    \/ Tick

InitRace ==
    /\ Init
    /\ kind \in {"drizzle_mysql", "sequelize"}

SpecRace == InitRace /\ [][NextRace]_vars

(***************************************************************************)
(* Two addItems calls in flight on key "A", from two instances of one      *)
(* durable adapter class.  SQLiteSession runs its transaction and          *)
(* SequelizeSession its one INSERT in a single step; DrizzleSession issues *)
(* four statements, and the other call's statements may come between.      *)
(***************************************************************************)
\* rows the calls in flight have yet to insert
Pending ==
    LET Due(a) == IF adds[a].pc \in {"lookup", "insertSession", "insertMessages"}
                  THEN Len(adds[a].batch) ELSE 0
    IN Due(1) + Due(2)

\* the call begins: the early return on an empty batch; the whole call for
\* SQLiteSession and SequelizeSession; up to the first statement for
\* DrizzleSession
AddStart(a) ==
    /\ adds[a].pc = "idle"
    /\ \E batch \in Batches :
        /\ Cardinality(messages) + Pending + Len(batch) <= MaxRows
        /\ nextId + Pending + Len(batch) - 1 <= MaxId
        /\ IF Len(batch) = 0 \/ kind \notin DrizzleKinds
           THEN LET out == Session_addItems(kind, Store, "A", batch, now, NoFault)
                IN /\ Commit(out.db)
                   /\ adds' = [adds EXCEPT ![a] =
                                  [@ EXCEPT !.pc = "done", !.batch = batch,
                                            !.first = IF Len(batch) = 0 THEN 0
                                                      ELSE nextId,
                                            !.res = out.res]]
           ELSE /\ adds' = [adds EXCEPT ![a] =
                               [@ EXCEPT !.pc = "lookup", !.batch = batch]]
                /\ UNCHANGED <<items, messages, sessions, nextId>>
    /\ UNCHANGED <<kind, now, last, boot, seq, pops, removed, held, reads>>

AddLookup(a) ==
    /\ adds[a].pc = "lookup"
    /\ LET existing == addLookup(sessions, "A")
       IN adds' = [adds EXCEPT ![a] =
                      [@ EXCEPT !.existing = existing,
                                !.pc = IF existing THEN "insertMessages"
                                       ELSE "insertSession"]]
    /\ UNCHANGED <<kind, items, messages, sessions, nextId, now, last, boot, seq,
                   pops, removed, held, reads>>

\* the insert after a lookup that found no row; a refusal rejects the call
AddInsertSession(a) ==
    /\ adds[a].pc = "insertSession"
    /\ LET done == addInsertSession(sessions, "A", now)
       IN /\ sessions' = done.sessions
          /\ adds' = [adds EXCEPT ![a] =
                         IF done.ok THEN [@ EXCEPT !.pc = "insertMessages"]
                         ELSE [@ EXCEPT !.pc = "done",
                                        !.res = Err("Failed to add items",
                                                    EngineError)]]
    /\ UNCHANGED <<kind, items, messages, nextId, now, last, boot, seq, pops,
                   removed, held, reads>>

AddInsertMessages(a) ==
    /\ adds[a].pc = "insertMessages"
    /\ LET ins == addInsertMessages(messages, sessions, nextId, "A",
                                    adds[a].batch, now)
       IN /\ messages' = ins.messages
          /\ nextId' = ins.nextId
          /\ adds' = [adds EXCEPT ![a] =
                         IF ins.ok
                         THEN [@ EXCEPT !.pc = "updateSession", !.first = nextId]
                         ELSE [@ EXCEPT !.pc = "done",
                                        !.res = Err("Failed to add items",
                                                    EngineError)]]
    /\ UNCHANGED <<kind, items, sessions, now, last, boot, seq, pops, removed, held, reads>>

AddUpdateSession(a) ==
    /\ adds[a].pc = "updateSession"
    /\ sessions' = addUpdateSession(sessions, "A", now)
    /\ adds' = [adds EXCEPT ![a] = [@ EXCEPT !.pc = "done", !.res = Ok(<<>>)]]
    /\ UNCHANGED <<kind, items, messages, nextId, now, last, boot, seq, pops,
                   removed, held, reads>>

NextAdd ==
    \/ \E a \in Adders : AddStart(a)
    \/ \E a \in Adders : AddLookup(a)
    \/ \E a \in Adders : AddInsertSession(a)
    \/ \E a \in Adders : AddInsertMessages(a)
    \/ \E a \in Adders : AddUpdateSession(a)
    \/ Tick

InitAdd ==
    /\ Init
    /\ kind # "memory"

SpecAdd == InitAdd /\ [][NextAdd]_vars

(***************************************************************************)
(* The same calls of DrizzleSession while another instance of the same key *)
(* clears the session between their statements.                            *)
(***************************************************************************)
NextOrphan ==
    \/ NextAdd
    \/ ClearSession({NoFault}, {"A"})

SpecOrphan == InitOpen /\ [][NextOrphan]_vars

(***************************************************************************)
(* A database whose rows another writer has damaged: the payload of a row  *)
(* of key "A" is overwritten with text that is not JSON.  The clock stands *)
(* still, so that created_at order and id order agree.                     *)
(***************************************************************************)
\* text JSON.parse rejects
Corrupt == <<"raw", "{">>

CorruptRow ==
    /\ \E r \in Where(messages, "A") :
          /\ r.data # Corrupt
          /\ messages' = (messages \ {r}) \cup {[r EXCEPT !.data = Corrupt]}
    /\ UNCHANGED <<kind, items, sessions, nextId, now, last, boot, seq, pops,
                   removed, adds, held, reads>>

NextCorrupt ==
    \/ CorruptRow
    \/ GetItems({NoFault}, {"A"})
    \/ AddItems({NoFault}, {"A"})
    \/ PopItem({NoFault}, {"A"})
    \/ ClearSession({NoFault}, {"A"})

InitCorrupt ==
    /\ Init
    /\ kind # "memory"

SpecCorrupt == InitCorrupt /\ [][NextCorrupt]_vars

(***************************************************************************)
(* An InMemorySession whose caller keeps an array getItems returned and    *)
(* changes it, while the session goes on being used.  push and pop work on *)
(* the session's array in place; clearSession assigns a new array.         *)
(***************************************************************************)
KeepGetItems ==
    /\ \E limit \in Limits :
        LET val == InMemorySession_getItems(items["A"], limit)
        IN /\ held' = [taken |-> TRUE, limit |-> limit,
                       own |-> ReturnsOwnArray(limit), val |-> val]
           /\ last' = [NoCall EXCEPT !.op = "get", !.limit = limit,
                                     !.res = Ok(val)]
    /\ UNCHANGED <<kind, items, messages, sessions, nextId, now, boot, seq, pops,
                   removed, adds, reads>>

\* the caller pushes an item to the array it holds, pops it or reverses it
CallerMutates ==
    /\ held.taken
    /\ \E val \in ({held.val \o <<x>> :
                        x \in IF Len(held.val) < MaxRows THEN Items ELSE {}}
                    \cup {SubSeq(held.val, 1, Len(held.val) - 1)}
                    \cup {Reverse(held.val)}) \ {held.val} :
        /\ held' = [held EXCEPT !.val = val]
        /\ items' = IF held.own THEN [items EXCEPT !["A"] = val] ELSE items
    /\ last' = [NoCall EXCEPT !.op = "mutate"]
    /\ UNCHANGED <<kind, messages, sessions, nextId, now, boot, seq, pops,
                   removed, adds, reads>>

\* this.items.push(...items)
PushItems ==
    /\ \E batch \in Batches :
        LET arr == InMemorySession_addItems(items["A"], batch)
        IN /\ Len(arr) <= MaxRows
           /\ items' = [items EXCEPT !["A"] = arr]
           /\ held' = IF held.own THEN [held EXCEPT !.val = arr] ELSE held
           /\ last' = [NoCall EXCEPT !.op = "add", !.batch = batch]
    /\ UNCHANGED <<kind, messages, sessions, nextId, now, boot, seq, pops,
                   removed, adds, reads>>

\* this.items.pop()
PopArray ==
    /\ LET out == InMemorySession_popItem(items["A"])
       IN /\ items' = [items EXCEPT !["A"] = out.arr]
          /\ held' = IF held.own THEN [held EXCEPT !.val = out.arr] ELSE held
          /\ last' = [NoCall EXCEPT !.op = "pop", !.res = Ok(out.ret)]
    /\ UNCHANGED <<kind, messages, sessions, nextId, now, boot, seq, pops,
                   removed, adds, reads>>

\* this.items = []: the array the caller holds is the session's no longer
AssignEmpty ==
    /\ items' = [items EXCEPT !["A"] = InMemorySession_clearSession(@)]
    /\ held' = [held EXCEPT !.own = FALSE]
    /\ last' = [NoCall EXCEPT !.op = "clear"]
    /\ UNCHANGED <<kind, messages, sessions, nextId, now, boot, seq, pops,
                   removed, adds, reads>>

NextAlias ==
    \/ KeepGetItems
    \/ CallerMutates
    \/ PushItems
    \/ PopArray
    \/ AssignEmpty

InitAlias ==
    /\ Init
    /\ kind = "memory"

SpecAlias == InitAlias /\ [][NextAlias]_vars

(***************************************************************************)
(* SequelizeSession.getItems(k) with a truthy k issues two queries, the    *)
(* count of getLength and then findAll with the offset computed from it;   *)
(* calls of other instances on the same key may run before, between and    *)
(* after them.                                                             *)
(***************************************************************************)
\* Math.max(0, (await this.getLength()) - limit)
ReadCount ==
    /\ reads.pc = "idle"
    /\ \E k \in 1 .. MaxRows :
        LET count == SequelizeSession_getLength(DBOf(Store), "A")
        IN reads' = [reads EXCEPT !.pc = "counted", !.limit = Some(k),
                                  !.offset = Max(0, count - k),
                                  !.seen = {Where(messages, "A")}]
    /\ UNCHANGED <<kind, items, messages, sessions, nextId, now, last, boot, seq,
                   pops, removed, adds, held>>

\* findAll({where, order, limit, offset}) and the JSON.parse of its rows
ReadSelect ==
    /\ reads.pc = "counted"
    /\ LET rowSeq == SequelizeSession_findAll(DBOf(Store), "A", reads.limit,
                                              reads.offset)
       IN reads' = [reads EXCEPT !.pc = "done", !.res = ParseAll(rowSeq)]
    /\ UNCHANGED <<kind, items, messages, sessions, nextId, now, last, boot, seq,
                   pops, removed, adds, held>>

\* the call of another instance leaves the database out.db
OtherCall(op, batch, out) ==
    /\ messages' = out.db.messages
    /\ nextId' = out.db.nextId
    /\ last' = [NoCall EXCEPT !.op = op, !.batch = batch, !.res = out.res]
    /\ reads' = IF reads.pc = "counted"
                THEN [reads EXCEPT !.seen = @ \cup {Where(out.db.messages, "A")}]
                ELSE reads
    /\ UNCHANGED <<kind, items, sessions, now, boot, seq, pops, removed, adds,
                   held>>

OtherAddItems ==
    \E batch \in Batches \ {<<>>} :
        /\ Cardinality(messages) + Len(batch) <= MaxRows
        /\ nextId + Len(batch) - 1 <= MaxId
        /\ OtherCall("add", batch,
                     SequelizeSession_addItems(DBOf(Store), "A", batch, now, NoFault))

OtherPopItem ==
    OtherCall("pop", <<>>, SequelizeSession_popItem(DBOf(Store), "A", NoFault))

OtherClearSession ==
    OtherCall("clear", <<>>, SequelizeSession_clearSession(DBOf(Store), "A", NoFault))

NextWindow ==
    \/ ReadCount
    \/ ReadSelect
    \/ OtherAddItems
    \/ OtherPopItem
    \/ OtherClearSession

InitWindow ==
    /\ Init
    /\ kind = "sequelize"

SpecWindow == InitWindow /\ [][NextWindow]_vars

(***************************************************************************)
(* The contract's view of the store.                                       *)
(***************************************************************************)
\* the item rows of key sid
RowsOf(st, sid) == {r \in st.messages : r.sessionId = sid}

\* the history of key sid in append order: the elements of the in-memory
\* instance's array, or the payloads of the key's rows by insertion sequence
\* number (the auto-increment id)
HistoryOf(st, sid) ==
    LET rowSeq == OrderById(RowsOf(st, sid))
    IN st.items[sid] \o [i \in 1 .. Len(rowSeq) |-> JSONparse(rowSeq[i].data)]

\* the last k elements of h, oldest first
TailOf(h, k) == SubSeq(h, Len(h) - k + 1, Len(h))

\* everything the store holds for key s
KeyState(st, s) ==
    [items |-> st.items[s], rows |-> RowsOf(st, s),
     session |-> {r \in st.sessions : r.sessionId = s}]

\* this step is a call of op (a repeated call that changes neither the store
\* nor the record is a stuttering step)
Called(op) == last'.op = op /\ <<last, Store>>' # <<last, Store>>

(***************************************************************************)
(* Properties.                                                             *)
(***************************************************************************)
\* C1: getItems() without a limit returns all stored items of the session in
\* exactly the order they were appended, in every adapter.
C1_AppendOrder ==
    (last.op = "get" /\ last.limit = Undefined)
        => (last.res.ok /\ last.res.val = HistoryOf(Store, last.sid))

\* C2: with N items stored and 0 < k < N, getItems(k) returns exactly the
\* last k appended items, oldest of the window first, in every adapter.
C2_TailWindow ==
    (/\ last.op = "get"
     /\ last.limit # Undefined
     /\ 0 < last.limit[1]
     /\ last.limit[1] < Len(HistoryOf(Store, last.sid)))
        => (/\ last.res.ok
            /\ Len(last.res.val) = last.limit[1]
            /\ last.res.val = TailOf(HistoryOf(Store, last.sid), last.limit[1]))

\* C3: getItems(limit) with limit <= 0 returns an empty sequence whatever the
\* session holds, in every adapter.
C3_NonPositiveLimitEmpty ==
    (last.op = "get" /\ last.limit # Undefined /\ last.limit[1] <= 0)
        => (last.res.ok /\ last.res.val = <<>>)

\* C4: getItems(k) with k >= N, N the number of stored items, returns all N
\* items in append order and never fails, in every adapter.
C4_LimitAtLeastCount ==
    (/\ last.op = "get"
     /\ last.limit # Undefined
     /\ last.limit[1] >= Len(HistoryOf(Store, last.sid)))
        => (last.res.ok /\ last.res.val = HistoryOf(Store, last.sid))

\* C5: popItem() on a session holding i1..iN returns iN, removes exactly that
\* item and leaves the others and their order unchanged; on an empty session
\* it returns undefined without failing and changes nothing.  (N+1 pops in a
\* row therefore return iN, ..., i1, undefined.)
C5_PopLIFO ==
    [][Called("pop") =>
        LET sid == last'.sid
            h == HistoryOf(Store, sid)
        IN /\ last'.res.ok
           /\ IF h = <<>>
              THEN last'.res.val = Undefined /\ Store' = Store
              ELSE /\ last'.res.val = Some(h[Len(h)])
                   /\ HistoryOf(Store', sid) = SubSeq(h, 1, Len(h) - 1)]_vars

\* C6: DrizzleSession.addItems is all-or-nothing: a call that fails at any of
\* its steps leaves the session rows and message rows as they were, and a
\* call that succeeds has stored every item of the batch.
C6_AddAllOrNothing ==
    [][(Called("add") /\ kind \in DrizzleKinds) =>
        IF last'.res.ok
        THEN HistoryOf(Store', last'.sid) = HistoryOf(Store, last'.sid) \o last'.batch
        ELSE messages' = messages /\ sessions' = sessions]_vars

\* C7: for two keys in one database, a call issued for one key leaves
\* everything stored for the other key unchanged, and getItems/popItem issued
\* for a key return only items of that key's own history.
C7_SessionIsolation ==
    [][\A op \in {"get", "add", "pop", "clear"} : Called(op) =>
        LET sid == last'.sid
        IN /\ \A s \in Keys \ {sid} : KeyState(Store', s) = KeyState(Store, s)
           /\ (op = "get" /\ last'.res.ok)
                 => ToSet(last'.res.val) \subseteq ToSet(HistoryOf(Store, sid))
           /\ (op = "pop" /\ last'.res.ok /\ last'.res.val # Undefined)
                 => last'.res.val[1] \in ToSet(HistoryOf(Store, sid))]_vars

C7_Witness ==
    /\ kind # "memory"
    /\ last.op = "pop" /\ last.sid = "B" /\ last.res = Ok(Some("a1"))
    /\ HistoryOf(Store, "A") = <<"u1", "u1">>
    /\ HistoryOf(Store, "B") = <<>>

\* C8: after clearSession() succeeds the key holds nothing: getItems() is
\* empty, popItem() returns undefined, no item row and (DrizzleSession) no
\* session row remains; an addItems that follows starts a history holding
\* exactly its batch.
C8_ClearEmpties ==
    (last.op = "clear" /\ last.res.ok) =>
        LET sid == last.sid
        IN /\ Fresh(Store, sid)
           /\ Session_getItems(kind, Store, sid, Undefined, NoFault).res = Ok(<<>>)
           /\ Session_popItem(kind, Store, sid, NoFault).res = Ok(Undefined)
           /\ \A batch \in Batches, clock \in 0 .. MaxClock :
                LET added == Session_addItems(kind, Store, sid, batch, clock, NoFault)
                IN /\ added.res.ok
                   /\ Session_getItems(kind, added.db, sid, Undefined, NoFault).res
                        = Ok(batch)

C8_Witness ==
    /\ kind \in DrizzleKinds
    /\ last.op = "clear" /\ last.res.ok /\ ~last.fresh /\ last.sid = "A"
    /\ nextId = 3
    /\ HistoryOf(Store, "B") # <<>>

\* C9: clearSession() on an empty, never-used or just-cleared session succeeds
\* and the state it leaves is the state after a single clearSession(): the key
\* holds nothing, getItems() is empty, and a key that held nothing before is
\* left as it was.
C9_ClearIdempotent ==
    [][Called("clear") =>
        LET sid == last'.sid
        IN /\ last'.res.ok
           /\ Fresh(Store', sid)
           /\ Session_getItems(kind, Store', sid, Undefined, NoFault).res = Ok(<<>>)
           /\ last'.fresh => Store' = Store]_vars

C9_Witness ==
    /\ last.op = "clear" /\ last.fresh /\ last.res.ok /\ last.sid = "A"
    /\ kind # "memory"
    /\ nextId > 1
    /\ HistoryOf(Store, "B") # <<>>

\* C10: addItems([]) does not fail, issues no statement and leaves the store
\* exactly as it was, whatever the engine would have refused: no session row
\* appears and no updated_at changes.
C10_EmptyAddNoOp ==
    [][(Called("add") /\ last'.batch = <<>>) =>
        /\ last'.res.ok
        /\ last'.io = 0
        /\ Store' = Store]_vars

C10_Witness ==
    /\ last.op = "add" /\ last.batch = <<>> /\ last.res.ok /\ last.io = 0
    /\ kind \in DrizzleKinds
    /\ sessions # {}
    /\ now = 1
    /\ \A r \in sessions : r.updatedAt = 0

\* C11: getItems, with or without a limit, leaves the whole store as it was
\* (items, their order, the session rows), and on a never-used key of a
\* healthy database it returns an empty sequence instead of failing.
C11_GetItemsReadOnly ==
    [][Called("get") =>
        /\ Store' = Store
        /\ last'.fresh => last'.res = Ok(<<>>)]_vars

C11_Witness ==
    /\ kind \in DrizzleKinds
    /\ last.op = "get" /\ last.sid = "B" /\ last.fresh /\ last.res = Ok(<<>>)
    /\ last.limit = Some(2)
    /\ Len(HistoryOf(Store, "A")) = 2

\* the prefix DrizzleSession puts before the message of a failed statement
PrefixOf(op) ==
    CASE op = "get" -> "Failed to get items"
      [] op = "add" -> "Failed to add items"
      [] op = "pop" -> "Failed to pop item"
      [] OTHER -> "Failed to clear session"

\* C12: a DrizzleSession call whose statement fails rejects with the
\* operation's prefix followed by the underlying message, in the SQLite,
\* PostgreSQL and MySQL variants alike.
C12_FailuresWrapped ==
    (kind \in DrizzleKinds /\ ~last.res.ok)
        => (last.res.prefix = PrefixOf(last.op) /\ last.res.msg = EngineError)

\* C13: fromUrl with a url of another scheme than sqlite:, postgres://,
\* postgresql:// or mysql:// rejects with 'Unsupported database URL' naming
\* the url, before a driver is loaded, a database or pool is opened, or a
\* statement is issued.
C13_UnsupportedUrlRejected ==
    (/\ boot.pc # "idle"
     /\ boot.url[1] \notin {"sqlite:", "postgres://", "postgresql://", "mysql://"})
        => (/\ boot.pc = "rejected"
            /\ boot.err.prefix = "Unsupported database URL"
            /\ boot.err.url = boot.url
            /\ ~boot.imported
            /\ boot.handle = "none"
            /\ boot.attempts = 0
            /\ boot.stmts = 0)

C13_Witness ==
    /\ boot.pc = "rejected"
    /\ boot.url[1] = "http://"
    /\ boot.err.url = <<"http://", "host/db">>
    /\ kind = "drizzle_pg"

\* C14: for a postgres or mysql url, fromUrl never makes more than maxRetries
\* attempts; when all fail it has made exactly maxRetries attempts with one
\* delay between consecutive attempts and none after the last, and rejects
\* with a message reporting maxRetries and the last underlying message; when
\* attempt j succeeds it returns after j attempts and j - 1 delays.
C14_RetryBudget ==
    (boot.protocol \in {"postgres", "mysql"}) =>
        /\ boot.attempts <= Max(0, boot.config.maxRetries)
        /\ boot.delays <= boot.attempts
        /\ boot.pc = "rejected" =>
              /\ boot.attempts = Max(0, boot.config.maxRetries)
              /\ boot.delays = Max(0, boot.attempts - 1)
              /\ boot.err.attempts = Some(boot.config.maxRetries)
              /\ boot.err.msg = EngineError
        /\ boot.pc = "resolved" =>
              /\ boot.attempts \in 1 .. boot.config.maxRetries
              /\ boot.delays = boot.attempts - 1

\* C15: whenever fromUrl rejects for a postgres or mysql url, the pool it
\* opened has been ended, for every integer maxRetries.
C15_PoolEndedOnReject ==
    (boot.protocol \in {"postgres", "mysql"} /\ boot.pc = "rejected")
        => boot.handle = "ended"

\* C16: for a sqlite: url fromUrl makes one attempt whatever maxRetries is,
\* with no retry and no delay; a failure to open the database or to create
\* the tables rejects with 'Failed to create SQLite session: ' and the
\* underlying message.
C16_SqliteSingleAttempt ==
    (boot.protocol = "sqlite") =>
        /\ boot.attempts <= 1
        /\ boot.retries = 0
        /\ boot.delays = 0
        /\ boot.pc \in {"resolved", "rejected"} => boot.attempts = 1
        /\ boot.pc = "rejected" =>
              /\ boot.err.prefix = "Failed to create SQLite session"
              /\ boot.err.msg = EngineError
              /\ boot.err.attempts = Undefined

C16_Witness ==
    /\ boot.protocol = "sqlite"
    /\ boot.pc = "rejected"
    /\ boot.config.maxRetries = 3
    /\ boot.attempts = 1
    /\ boot.stmts = 2

\* C17: close() on a DrizzleSession never raises, the second call included:
\* it resolves to undefined even when the handle's own close or end throws.
C17_CloseNeverRaises ==
    (boot.closes > 0) => boot.closeRes = Ok(Undefined)

C17_Witness ==
    /\ boot.closes = 2
    /\ boot.protocol = "postgres"
    /\ boot.handle = "ended"
    /\ boot.caught

\* C18: a SequelizeSession built by fromSequelize never closes the Sequelize
\* instance it was given, whatever is called on it and however often close()
\* is called; a session built by fromUrl closes its own instance (every
\* close() calls the instance's close, and one that resolves leaves it
\* closed); the ownership flag keeps the value construction gave it.
C18_ExternalHandleNeverClosed ==
    /\ seq.built = "fromSequelize" =>
          /\ ~seq.ownSequelize
          /\ seq.handle = "open"
          /\ seq.handleCloses = 0
    /\ seq.built = "fromUrl" =>
          /\ seq.ownSequelize
          /\ seq.handleCloses = seq.closes
          /\ (seq.closes > 0 /\ seq.closeRes.ok) => seq.handle = "closed"

C18_Witness ==
    /\ seq.built = "fromSequelize"
    /\ seq.closes = 2
    /\ seq.handle = "open"
    /\ last.op = "pop" /\ last.res.val # Undefined
    /\ messages # {}

\* C19: when two popItem calls on one key interleave (PostgreSQL), no stored
\* item is returned by both, and every row deleted was returned, as its own
\* payload, by the one call that deleted it.
C19_InterleavedPopsDisjoint ==
    /\ \A r \in removed :
          \E p \in Poppers :
              /\ pops[p].pc = "done"
              /\ pops[p].id = r.id
              /\ pops[p].ret = Some(JSONparse(r.data))
    /\ \A p \in Poppers :
          (pops[p].pc = "done" /\ pops[p].ret # Undefined)
              => \E r \in removed : r.id = pops[p].id
    /\ \A p, q \in Poppers :
          (/\ p # q
           /\ pops[p].pc = "done" /\ pops[p].ret # Undefined
           /\ pops[q].pc = "done" /\ pops[q].ret # Undefined)
              => pops[p].id # pops[q].id

C19_Witness ==
    /\ pops[1].pc = "done" /\ pops[2].pc = "done"
    /\ pops[1].id = pops[2].id
    /\ pops[1].ret = Undefined
    /\ pops[2].ret = Some("a1")
    /\ Cardinality(removed) = 1
    /\ Cardinality(messages) = 2

\* C20: for every sequence of calls by a single caller, all limits included,
\* each durable adapter returns what InMemorySession returns on the same
\* sequence: with the in-memory array standing at the adapter's history, each
\* call returns the in-memory call's result and leaves the history the
\* in-memory call leaves.
C20_SameAsInMemory ==
    [][\A op \in {"get", "add", "pop", "clear"} : Called(op) =>
        LET sid == last'.sid
            arr == HistoryOf(Store, sid)
            left == HistoryOf(Store', sid)
        IN /\ last'.res.ok
           /\ op = "get" =>
                 /\ last'.res.val = InMemorySession_getItems(arr, last'.limit)
                 /\ left = arr
           /\ op = "add" => left = InMemorySession_addItems(arr, last'.batch)
           /\ op = "pop" =>
                 /\ last'.res.val = InMemorySession_popItem(arr).ret
                 /\ left = InMemorySession_popItem(arr).arr
           /\ op = "clear" => left = InMemorySession_clearSession(arr)]_vars

\* the payloads of key sid that parse, by insertion sequence number
ReadableOf(st, sid) ==
    LET rowSeq == OrderById(RowsOf(st, sid))
        Good(i) == CanParse(rowSeq[i].data)
        good == SelectSeq([i \in 1 .. Len(rowSeq) |-> i], Good)
    IN [j \in 1 .. Len(good) |-> JSONparse(rowSeq[good[j]].data)]

\* the newest row of key sid, as a set (empty when the key has no row)
NewestOf(st, sid) ==
    {r \in RowsOf(st, sid) : \A q \in RowsOf(st, sid) : q.id <= r.id}

\* this step overwrites a payload: the rows keep their ids and one changes
Damaging ==
    /\ messages' # messages
    /\ {r.id : r \in messages'} = {r.id : r \in messages}

\* C21: in SQLiteSession, SequelizeSession and DrizzleSession a stored payload
\* that does not parse never makes getItems or popItem fail: getItems()
\* returns the other items of the session in order, and popItem on a newest
\* row that does not parse returns undefined.
C21_UnparsableSkipped ==
    [][((Called("get") \/ Called("pop")) /\ ~Damaging) =>
        LET sid == last'.sid
        IN /\ last'.res.ok
           /\ (last'.op = "get" /\ last'.limit = Undefined)
                 => last'.res.val = ReadableOf(Store, sid)
           /\ (last'.op = "pop" /\ \E r \in NewestOf(Store, sid) : ~CanParse(r.data))
                 => last'.res.val = Undefined]_vars

\* C22: close() of DrizzleSession, SequelizeSession and SQLiteSession never
\* throws or rejects when releasing the underlying handle fails: the failure
\* is caught and close() completes normally.
C22_CloseFailureCaught ==
    /\ (seq.closes > 0) => seq.closeRes = Ok(Undefined)
    /\ (boot.closes > 0) => boot.closeRes = Ok(Undefined)

\* C23: with createTables omitted or true, DrizzleSession.fromUrl resolves
\* only when agent_sessions, agent_messages and the (session_id, created_at)
\* index exist; with createTables false it issues no create statement, and
\* addItems with a non-empty batch on a database lacking a table fails.
C23_TablesProvisioned ==
    /\ (boot.pc = "resolved" /\ boot.given \in {Undefined, Some(TRUE)})
          => /\ boot.tables = {Schema[i] : i \in 1 .. 3}
             /\ boot.stmts >= 3
    /\ (boot.given = Some(FALSE)) => boot.stmts = 0
    /\ (/\ boot.pc = "resolved"
        /\ last.op = "add" /\ last.batch # <<>>
        /\ ~({"agent_sessions", "agent_messages"} \subseteq boot.tables))
          => (~last.res.ok /\ Where(messages, "A") = {})

C23_Witness ==
    /\ boot.pc = "resolved"
    /\ boot.given = Some(FALSE)
    /\ boot.protocol = "mysql"
    /\ boot.tables = {"agent_sessions"}
    /\ last.op = "add" /\ Len(last.batch) = 2
    /\ last.res = Err("Failed to add items", EngineError)
    /\ sessions # {}

\* occurrences of x in list
Count(list, x) == Cardinality({i \in 1 .. Len(list) : list[i] = x})

\* what getItems() returns for key sid on store st
Returned(st, sid) == Session_getItems(kind, st, sid, Undefined, NoFault).res.val

C27_UndefinedOnlyWhenEmpty ==
    \A p \in Poppers :
        (pops[p].pc = "done" /\ pops[p].ret = Undefined) => pops[p].empty

\* C28: in the select-then-delete variants (DrizzleSession on MySQL,
\* SequelizeSession) a popItem call returns the item of the row it selected
\* whether or not its DELETE removed a row, so that two interleaved calls that
\* selected the same row both return its item while one row is deleted.
C28_PopRacePossible ==
    /\ \A p \in Poppers :
          (pops[p].pc = "done" /\ pops[p].id # 0)
              => pops[p].ret = Some(JSONparse(pops[p].data))
    /\ \A p, q \in Poppers :
          (/\ p # q
           /\ pops[p].pc = "done" /\ pops[q].pc = "done"
           /\ pops[p].id # 0 /\ pops[p].id = pops[q].id)
              => /\ pops[p].ret = pops[q].ret
                 /\ Cardinality({r \in removed : r.id = pops[p].id}) = 1

C28_Witness ==
    /\ kind = "drizzle_mysql"
    /\ pops[1].pc = "done" /\ pops[2].pc = "done"
    /\ pops[1].id = 2 /\ pops[2].id = 2
    /\ pops[1].ret = Some("a1") /\ pops[2].ret = Some("a1")
    /\ Cardinality(removed) = 1
    /\ Cardinality(messages) = 2

\* C25: constructing a DrizzleSession on PostgreSQL or MySQL, a failure of
\* table or index creation is surfaced without being retried: ensureTables
\* is invoked at most once per fromUrl call.
C25_ProvisioningNotRetried ==
    (boot.protocol \in {"postgres", "mysql"}) =>
        /\ boot.ensureCalls <= 1
        /\ (boot.ensureCalls = 1 /\ boot.pc # "resolved") => boot.pc = "rejected"

\* C26: over any sequence of close() calls on one DrizzleSession the release
\* of its handle (sqlite.close() or pool.end()) is invoked at most once; a
\* second or later close() does not touch the handle.
C26_HandleReleasedOnce ==
    (boot.pc = "resolved") => boot.ends <= 1

\* C29: in DrizzleSession, getItems() returns a key's items in ascending id
\* and popItem removes the row with the largest id, whatever created_at the
\* engine clock gave the rows (equal timestamps, a clock that steps back).
C29_OrderedBySequenceNumber ==
    [][(kind \in DrizzleKinds) =>
        /\ (Called("get") /\ last'.limit = Undefined)
              => last'.res.val = HistoryOf(Store, last'.sid)
        /\ Called("pop")
              => RowsOf(Store', last'.sid)
                   = RowsOf(Store, last'.sid) \ NewestOf(Store, last'.sid)]_vars

\* the rows of key sid in the order getItems() reads them
ReadOrder(st, sid) ==
    IF kind \in DrizzleKinds THEN OrderByTimeId(RowsOf(st, sid))
    ELSE OrderById(RowsOf(st, sid))

\* the position of the row of this id in rowSeq (0: absent)
PositionOf(rowSeq, id) ==
    IF \E i \in 1 .. Len(rowSeq) : rowSeq[i].id = id
    THEN CHOOSE i \in 1 .. Len(rowSeq) : rowSeq[i].id = id
    ELSE 0

\* C30: for any interleaving of addItems calls from several instances on one
\* key, the items of each successful batch appear in getItems() in the order
\* of the batch, each exactly once, and getItems() returns nothing else.
C30_BatchOrderKept ==
    LET rowSeq == ReadOrder(Store, "A")
        Landed(a) == adds[a].pc = "done" /\ adds[a].res.ok
        IdOf(a, i) == adds[a].first + i - 1
    IN /\ \A a \in Adders : Landed(a) =>
             /\ \A i \in 1 .. Len(adds[a].batch) :
                   /\ PositionOf(rowSeq, IdOf(a, i)) # 0
                   /\ rowSeq[PositionOf(rowSeq, IdOf(a, i))].data
                        = <<"json", adds[a].batch[i]>>
             /\ \A i, j \in 1 .. Len(adds[a].batch) :
                   i < j => PositionOf(rowSeq, IdOf(a, i)) < PositionOf(rowSeq, IdOf(a, j))
       /\ (\A a \in Adders : adds[a].pc = "done") =>
             /\ Len(Returned(Store, "A"))
                  = (IF Landed(1) THEN Len(adds[1].batch) ELSE 0)
                    + (IF Landed(2) THEN Len(adds[2].batch) ELSE 0)
             /\ Returned(Store, "A")
                  = [i \in 1 .. Len(rowSeq) |-> rowSeq[i].data[2]]

C30_Witness ==
    /\ kind = "drizzle_pg"
    /\ adds[1].pc = "done" /\ adds[1].res.ok /\ adds[1].batch = <<"u1", "a1">>
    /\ adds[2].pc = "done" /\ adds[2].res.ok /\ adds[2].batch = <<"a1">>
    /\ adds[2].first = 1 /\ adds[1].first = 2
    /\ \E r \in messages : r.id = 1 /\ r.createdAt = 1
    /\ \E r \in messages : r.id = 2 /\ r.createdAt = 0
    /\ Returned(Store, "A") = <<"u1", "a1", "a1">>

\* C31: in every state of a DrizzleSession database, the states between the
\* statements of addItems calls and another instance's clearSession included,
\* every agent_messages row has its agent_sessions row
C31_NoOrphanItems ==
    \A m \in messages : \E r \in sessions : r.sessionId = m.sessionId

\* an addItems call found the session row, lost it to a clearSession before
\* its INSERT, and was refused
C31_Witness ==
    \E a \in Adders :
        /\ adds[a].pc = "done"
        /\ adds[a].existing
        /\ ~adds[a].res.ok
        /\ last.op = "clear"

\* the agent_sessions row of key sid in table
SessionRowOf(table, sid) == {r \in table : r.sessionId = sid}

\* C32: a DrizzleSession session row appears only in a successful non-empty
\* addItems and disappears only in clearSession; getItems and popItem leave
\* agent_sessions as it was; updated_at changes only in an addItems that has
\* inserted its batch.
C32_SessionRowLifecycle ==
    [][(kind \in DrizzleKinds) =>
       (/\ \A sid \in Keys :
             LET before == SessionRowOf(sessions, sid)
                 after == SessionRowOf(sessions', sid)
             IN /\ (before = {} /\ after # {})
                      => (/\ last'.op = "add" /\ last'.sid = sid
                          /\ last'.res.ok /\ last'.batch # <<>>)
                /\ (before # {} /\ after = {})
                      => (last'.op = "clear" /\ last'.sid = sid)
                /\ (before # {} /\ after # {} /\ after # before)
                      => (/\ last'.op = "add" /\ last'.sid = sid
                          /\ HistoryOf(Store', sid)
                               = HistoryOf(Store, sid) \o last'.batch)
        /\ (Called("get") \/ Called("pop")) => sessions' = sessions)]_vars

\* C33: SQLiteSession.addItems stores its batch in one transaction: when an
\* insert of the batch fails the call fails and no item of the batch is
\* stored, otherwise every item of the batch is stored.
C33_BatchInOneTransaction ==
    [][(Called("add") /\ kind = "sqlite") =>
        IF last'.res.ok
        THEN HistoryOf(Store', last'.sid) = HistoryOf(Store, last'.sid) \o last'.batch
        ELSE messages' = messages /\ nextId' = nextId]_vars

\* the second insert of a batch of two failed on a table that held a row
C33_Witness ==
    /\ kind = "sqlite"
    /\ last.op = "add" /\ ~last.res.ok
    /\ last.fault = <<"insert", 2>> /\ Len(last.batch) = 2
    /\ Cardinality(messages) = 1 /\ nextId = 2

\* C34: every fromUrl call that has started resolves or rejects, when each
\* attempt and each delay terminates.
C34_FromUrlSettles ==
    (boot.pc # "idle") ~> (boot.pc \in {"resolved", "rejected"})

\* fromUrl rejected after the last of at least two failed attempts, with a
\* delay between them
C34_Witness ==
    /\ boot.pc = "rejected"
    /\ boot.attempts = boot.config.maxRetries
    /\ boot.attempts >= 2
    /\ boot.delays = boot.attempts - 1

C36_BothAddsLand ==
    (/\ kind \in {"drizzle_pg", "drizzle_mysql"}
     /\ \A a \in Adders :
           adds[a].pc = "done" /\ adds[a].batch # <<>> /\ ~adds[a].existing)
        => (/\ \A a \in Adders : adds[a].res.ok
            /\ Len(HistoryOf(Store, "A"))
                 = Len(adds[1].batch) + Len(adds[2].batch))

\* the items of a set of rows, by insertion sequence number
ItemsOfRows(rows) ==
    LET rowSeq == OrderById(rows)
    IN [i \in 1 .. Len(rowSeq) |-> JSONparse(rowSeq[i].data)]

\* C37: SequelizeSession.getItems(k), k > 0, returns the last min(k, n) items
\* of the session as it stood at one moment between the call's start and its
\* return, whatever other callers did between its count and its select.
C37_WindowOfOneState ==
    (reads.pc = "done" /\ reads.res.ok) =>
        \E rows \in reads.seen :
            LET h == ItemsOfRows(rows)
            IN reads.res.val = TailOf(h, Min(reads.limit[1], Len(h)))

\* C38: the pool of a session fromUrl returned for a server url is ended only
\* by that session's close() (or its own finalizer): while the session is in
\* use and not closed, no cleanup callback registered for the session object
\* of an earlier failed attempt has ended the pool.
C38_PoolOnlyEndedByOwner ==
    (/\ boot.pc = "resolved"
     /\ boot.protocol \in {"postgres", "mysql"}
     /\ boot.closes = 0)
        => boot.handle = "open"

\* C39: when fromUrl has resolved for a server url, at least one statement has
\* completed against the engine, with createTables true or false.
C39_ServerReachedOnResolve ==
    (boot.pc = "resolved" /\ boot.protocol \in {"postgres", "mysql"})
        => boot.stmts >= 1

\* C40: when createSqliteSession fails after the database was opened, the
\* handle has been closed by the time fromUrl rejects.
C40_HandleClosedOnFailure ==
    (boot.pc = "rejected" /\ boot.protocol = "sqlite")
        => boot.handle # "open"

====
